---- MODULE Spec2Model ----
(***************************************************************************)
(* Model of examples/docqa/extract-then-chat.py: the BookInfo records, the *)
(* BookInfoTool message and its handle method, the Assistant.book_info and *)
(* Extractor.handle_message_fallback handlers, and the chat() script that  *)
(* builds the three agents and tasks and runs the root task.               *)
(*                                                                         *)
(* Text is a sequence of one-character strings.  The markers imported from *)
(* langroid.utils.constants are single opaque elements: their spelling is  *)
(* the library's, and no character of a book record equals one of them.    *)
(***************************************************************************)
EXTENDS Integers, Sequences, FiniteSets, TLC

\* Python's None where a text is expected, an absent message, an unset
\* configuration object, nobody
None == <<"None">>
NoMessage == [request |-> "None"]
Unset == [unset |-> TRUE]
Nobody == "Nobody"
\* a command-line option is <<>> when omitted and <<value>> when given
Omitted == <<>>

\* ---------------------------------------------------------------- bounds
MaxBooks == 2
MaxCalls == 2
MaxFallbacks == 2
MaxHistory == 2
MaxDocTurns == 2

\* ------------------------------------------------- imported marker values
SEND_TO == <<"SEND_TO">>
DONE == <<"DONE">>
PASS == <<"PASS">>

\* ------------------------------------------------------------ text helpers
RECURSIVE Flatten(_)
Flatten(ss) == IF ss = <<>> THEN <<>> ELSE Head(ss) \o Flatten(Tail(ss))

Chars(s) == {s[i] : i \in 1..Len(s)}

\* s[i..i+Len(p)-1] = p
OccursAt(p, s, i) ==
    /\ i >= 1
    /\ i + Len(p) - 1 <= Len(s)
    /\ \A k \in 1..Len(p) : s[i + k - 1] = p[k]

Contains(s, p) == \E i \in 1..(Len(s) + 1) : OccursAt(p, s, i)

StartsWith(s, p) == OccursAt(p, s, 1)

\* str.replace(old, new) for a one-character old
replace(s, old, new) == [i \in 1..Len(s) |-> IF s[i] = old THEN new ELSE s[i]]

\* repr() of a Python str: quoted with ' unless the string holds a ' and no ",
\* backslash, the chosen quote and newline escaped
StrRepr(s) ==
    LET q == IF "'" \in Chars(s) /\ "\"" \notin Chars(s) THEN "\"" ELSE "'"
        esc(c) == IF c = "\\" THEN <<"\\", "\\">>
                  ELSE IF c = q THEN <<"\\", q>>
                  ELSE IF c = "\n" THEN <<"\\", "n">>
                  ELSE <<c>>
    IN  <<q>> \o Flatten([i \in 1..Len(s) |-> esc(s[i])]) \o <<q>>

Digit(d) == <<"0","1","2","3","4","5","6","7","8","9">>[d + 1]

RECURSIVE NatRepr(_)
NatRepr(n) == IF n < 10 THEN <<Digit(n)>>
              ELSE NatRepr(n \div 10) \o <<Digit(n % 10)>>

\* repr() of a Python int
IntRepr(n) == IF n < 0 THEN <<"-">> \o NatRepr(0 - n) ELSE NatRepr(n)

\* ------------------------------------------------------- BookInfo records
Titles == { <<"H","o","b">>, <<"{","G","}">>, <<"'","\"","\\">> }
Authors == { <<"i","t","'","s">>, <<"}","{">> }
Years == { 1937, 0 - 7 }

BookInfo == [title : Titles, author : Authors, year : Years]

\* repr() of a BookInfo model: BookInfo(title='..', author='..', year=..)
BookInfoRepr(b) ==
    <<"B","o","o","k","I","n","f","o","(">>
    \o <<"t","i","t","l","e","=">> \o StrRepr(b.title) \o <<","," ">>
    \o <<"a","u","t","h","o","r","=">> \o StrRepr(b.author) \o <<","," ">>
    \o <<"y","e","a","r","=">> \o IntRepr(b.year) \o <<")">>

\* str() of a Python list: the reprs of the elements joined by ", " in [ ]
RECURSIVE JoinReprs(_)
JoinReprs(l) == IF l = <<>> THEN <<>>
                ELSE IF Len(l) = 1 THEN BookInfoRepr(l[1])
                ELSE BookInfoRepr(Head(l)) \o <<","," ">> \o JoinReprs(Tail(l))

ListStr(l) == <<"[">> \o JoinReprs(l) \o <<"]">>

\* the info field of a BookInfoTool: List[BookInfo]
InfoLists == UNION {[1..n -> BookInfo] : n \in 0..MaxBooks}

BookInfoTool == [request : {"book_info"}, info : InfoLists]

\* ------------------------------------------------------------------ state
\* msg: the validated BookInfoTool message in play, or NoMessage
\* outs: texts returned by Assistant.book_info for msg, in call order
\* handle_ret: text returned by the last BookInfoTool.handle, or None
VARIABLES msg, outs, handle_ret

\* extractor: the Extractor agent (its message history)
\* fb_log: the calls of handle_message_fallback, as [msg, ret], in call order
VARIABLES extractor, fb_log

\* pc: the statement of chat() to execute next
\* argv: the options on the command line, Omitted where not given
\* settings, llm_cfg: the global Settings and the OpenAIGPTConfig, once set
\* agents, tasks: the agents and Task wrappers instantiated so far
\* enabled: the enable_message calls made, as [agent, tool, use, handle]
\* ingested: the paths given to doc_agent.ingest_doc_paths
\* sub_tasks: the <<parent, child>> pairs declared with add_sub_task
\* runs: the tasks run() was called on, in call order
VARIABLES pc, argv, settings, llm_cfg, agents, tasks, enabled, ingested, sub_tasks, runs

\* turn: who responds next in the running task tree
\* received: the tool message passed up to the Assistant task, or NoMessage
\* addressed: whom the Assistant handler's text is routed to, or Nobody
\* extractor_status: "idle", "running" or "done" for the Extractor task
\* doc_turns: the DocAgent language-model responses to the current question
VARIABLES turn, received, addressed, extractor_status, doc_turns

\* ------------------------------------------------------------- handlers
\* variants of handle that leave out one of the two markers
BookInfoTool_handle_done_only(self) == [ret |-> DONE, self |-> self]

BookInfoTool_handle_pass_only(self) == [ret |-> PASS, self |-> self]

\* BookInfoTool.handle: the returned text and the message afterwards
BookInfoTool_handle(self) ==
    [ret |-> DONE \o <<" ">> \o PASS, self |-> self]

\* a variant of info_str that leaves the braces in
info_str_keep_braces(m) == ListStr(m.info)

\* info_str = str(msg.info).replace("{", "[").replace("}", "]")
info_str(m) == replace(replace(ListStr(m.info), "{", "["), "}", "]")

BookInfoHead ==
    <<"L","L","M","\n"," "," "," "," "," "," "," "," ","B","e","l","o","w",
      " ","i","s"," ","I","N","F","O"," ","a","b","o","u","t"," ","v","a",
      "r","i","o","u","s"," ","b","o","o","k","s",","," ","y","o","u"," ",
      "r","e","c","e","i","v","e","d"," ","f","r","o","m"," ","t","h","e",
      " ","E","x","t","r","a","c","t","o","r",".","\n"," "," "," "," "," ",
      " "," "," ","N","o","w"," ","a","s","k"," ","t","h","e"," ","u","s",
      "e","r"," ","w","h","a","t"," ","h","e","l","p"," ","t","h","e","y",
      " ","n","e","e","d",","," ","a","n","d"," ","r","e","s","p","o","n",
      "d"," ","O","N","L","Y"," ","b","a","s","e","d"," ","o","n"," ","t",
      "h","i","s"," ","I","N","F","O",".","\n"," "," "," "," "," "," "," ",
      " ","\n"," "," "," "," "," "," "," "," ","I","N","F","O",":"," ","\n",
      " "," "," "," "," "," "," "," ">>

BookInfoTail ==
    <<" ","\n"," "," "," "," "," "," "," "," ">>

\* a variant of book_info without the routing marker
book_info_unrouted(m) == BookInfoHead \o info_str(m) \o BookInfoTail

\* a variant of book_info that numbers its answers
book_info_numbered(m) ==
    SEND_TO \o BookInfoHead \o info_str(m) \o IntRepr(Len(outs)) \o BookInfoTail

\* Assistant.book_info: the f-string around info_str
book_info(m) == SEND_TO \o BookInfoHead \o info_str(m) \o BookInfoTail

NudgeText ==
    <<"\n"," "," "," "," "," "," "," "," "," "," "," "," ","Y","o","u"," ",
      "m","u","s","t"," ","u","s","e"," ","t","h","e"," ","\"","b","o","o",
      "k","_","i","n","f","o","\""," ","t","o","o","l"," ","t","o"," ","p",
      "r","e","s","e","n","t"," ","t","h","e"," ","i","n","f","o",".","\n",
      " "," "," "," "," "," "," "," "," "," "," "," ","Y","o","u"," ","e",
      "i","t","h","e","r"," ","f","o","r","g","o","t"," ","t","o"," ","u",
      "s","e"," ","i","t",","," ","o","r"," ","y","o","u"," ","u","s","e",
      "d"," ","i","t"," ","w","i","t","h"," ","t","h","e"," ","w","r","o",
      "n","g"," ","f","o","r","m","a","t",".","\n"," "," "," "," "," "," ",
      " "," "," "," "," "," ","M","a","k","e"," ","s","u","r","e"," ","a",
      "l","l"," ","f","i","e","l","d","s"," ","a","r","e"," ","f","i","l",
      "l","e","d"," ","o","u","t"," ","a","n","d"," ","p","a","y"," ","a",
      "t","t","e","n","t","i","o","n"," ","t","o"," ","t","h","e"," ","\n",
      " "," "," "," "," "," "," "," "," "," "," "," ","r","e","q","u","i",
      "r","e","d"," ","t","y","p","e","s"," ","o","f"," ","t","h","e"," ",
      "f","i","e","l","d","s",".","\n"," "," "," "," "," "," "," "," "," ",
      " "," "," ">>

\* what the Extractor's language model may say that is not a valid tool
\* message; attempt is the verdict of the agent's has_tool_message_attempt
Contents == { <<"W","h","o","?">>, <<"{","}">>, <<>> }
FallbackMsgs == [content : Contents, attempt : BOOLEAN]

has_tool_message_attempt(self, m) == m.attempt

\* a variant of the fallback that nudges whatever the input
handle_message_fallback_always(self, m) == [ret |-> NudgeText, self |-> self]

\* a variant of the fallback that nudges once and remembers that it did
handle_message_fallback_once(self, m) ==
    IF has_tool_message_attempt(self, m) /\ self.message_history = <<>>
    THEN [ret |-> NudgeText,
          self |-> [self EXCEPT !.message_history = Append(@, "nudged")]]
    ELSE [ret |-> None, self |-> self]

\* Extractor.handle_message_fallback: the returned value and the agent
\* afterwards; a Python function that ends without return returns None
handle_message_fallback(self, m) ==
    [ret |-> IF has_tool_message_attempt(self, m) THEN NudgeText ELSE None,
     self |-> self]

\* ------------------------------------------------- chat(): configuration
GPT4_TURBO == "GPT4_TURBO"
ModelNames == {"", "ollama/mistral"}
Argvs ==
    [model : {Omitted} \cup {<<m>> : m \in ModelNames},
     debug : {Omitted} \cup {<<b>> : b \in BOOLEAN},
     no_cache : {Omitted} \cup {<<b>> : b \in BOOLEAN}]

\* the parameters of chat() with their defaults
ChatArgs(av) ==
    [model |-> IF av.model = Omitted THEN "" ELSE av.model[1],
     debug |-> IF av.debug = Omitted THEN FALSE ELSE av.debug[1],
     no_cache |-> IF av.no_cache = Omitted THEN FALSE ELSE av.no_cache[1]]

\* a variant of Settings with the cache flag not negated
Settings_cache_as_given(debug, no_cache) == [debug |-> debug, cache |-> no_cache]

\* Settings(debug=debug, cache=not no_cache)
Settings(debug, no_cache) == [debug |-> debug, cache |-> ~no_cache]

\* lm.OpenAIGPTConfig(chat_model=model or GPT4_TURBO, ...): an empty str is
\* false in Python
OpenAIGPTConfig(model) ==
    [chat_model |-> IF model # "" THEN model ELSE GPT4_TURBO,
     chat_context_length |-> 16000]

\* a variant of doc_task without done_if_response
doc_task_no_done_if_response ==
    [name |-> "DocAgent", agent |-> "doc_agent", interactive |-> TRUE,
     done_if_no_response |-> {"LLM"}, done_if_response |-> {}]

\* Task(doc_agent, name="DocAgent", done_if_no_response=[Entity.LLM],
\* done_if_response=[Entity.LLM]); interactive is the Task default
doc_task ==
    [name |-> "DocAgent", agent |-> "doc_agent", interactive |-> TRUE,
     done_if_no_response |-> {"LLM"}, done_if_response |-> {"LLM"}]

extractor_task ==
    [name |-> "Extractor", agent |-> "extractor_agent", interactive |-> FALSE,
     done_if_no_response |-> {}, done_if_response |-> {}]

assistant_task ==
    [name |-> "Assistant", agent |-> "assistant_agent", interactive |-> TRUE,
     done_if_no_response |-> {}, done_if_response |-> {}]

\* ------------------------------------------------------- initial values
handler_vars == <<msg, outs, handle_ret>>
extractor_vars == <<extractor, fb_log>>
script_vars == <<pc, argv, settings, llm_cfg, agents, tasks, enabled, ingested, sub_tasks, runs>>
engine_vars == <<turn, received, addressed, extractor_status, doc_turns>>
vars == <<msg, outs, handle_ret, extractor, fb_log, pc, argv, settings, llm_cfg, agents, tasks, enabled, ingested, sub_tasks, runs, turn, received, addressed, extractor_status, doc_turns>>

HandlersIdle == outs = <<>> /\ handle_ret = None
ExtractorFresh == extractor = [message_history |-> <<>>] /\ fb_log = <<>>
EngineIdle ==
    /\ turn = Nobody
    /\ received = NoMessage
    /\ addressed = Nobody
    /\ extractor_status = "idle"
    /\ doc_turns = <<>>
ScriptFresh ==
    /\ settings = Unset
    /\ llm_cfg = Unset
    /\ agents = {}
    /\ tasks = {}
    /\ enabled = {}
    /\ ingested = {}
    /\ sub_tasks = {}
    /\ runs = <<>>
\* the handlers are exercised without chat() having been called
ScriptNotStarted ==
    /\ pc = "not_called"
    /\ argv = [model |-> Omitted, debug |-> Omitted, no_cache |-> Omitted]
    /\ ScriptFresh

\* ------------------------------------------ Spec: the tool handlers alone
Init ==
    /\ msg \in BookInfoTool
    /\ HandlersIdle
    /\ ExtractorFresh
    /\ ScriptNotStarted
    /\ EngineIdle

\* the tool dispatch invokes Assistant.book_info(msg)
CallBookInfo ==
    /\ Len(outs) < MaxCalls
    /\ outs' = Append(outs, book_info(msg))
    /\ UNCHANGED <<msg, handle_ret>>
    /\ UNCHANGED <<extractor_vars, script_vars, engine_vars>>

\* the tool dispatch invokes msg.handle()
CallHandle ==
    /\ LET r == BookInfoTool_handle(msg)
       IN  /\ handle_ret' = r.ret
           /\ msg' = r.self
    /\ UNCHANGED outs
    /\ UNCHANGED <<extractor_vars, script_vars, engine_vars>>

Next == CallBookInfo \/ CallHandle

Spec == Init /\ [][Next]_vars

\* ------------------------------- SpecExtractor: the fallback handler alone
InitExtractor ==
    /\ msg = NoMessage
    /\ HandlersIdle
    /\ ExtractorFresh
    /\ ScriptNotStarted
    /\ EngineIdle

\* the agent's language model answers: its message joins the history
LLMResponse ==
    /\ Len(extractor.message_history) < MaxHistory
    /\ extractor' = [extractor EXCEPT
                       !.message_history = Append(@, "assistant")]
    /\ UNCHANGED fb_log
    /\ UNCHANGED <<handler_vars, script_vars, engine_vars>>

\* the dispatch found no tool handler for m and invokes the fallback
CallFallback(m) ==
    /\ Len(fb_log) < MaxFallbacks
    /\ LET r == handle_message_fallback(extractor, m)
       IN  /\ fb_log' = Append(fb_log, [msg |-> m, ret |-> r.ret])
           /\ extractor' = r.self
    /\ UNCHANGED <<handler_vars, script_vars, engine_vars>>

NextExtractor == LLMResponse \/ \E m \in FallbackMsgs : CallFallback(m)

SpecExtractor == InitExtractor /\ [][NextExtractor]_vars

\* ------------------------------------------- SpecChat: the chat() script
InitChat ==
    /\ msg = NoMessage
    /\ HandlersIdle
    /\ ExtractorFresh
    /\ EngineIdle
    /\ pc = "set_global"
    /\ argv \in Argvs
    /\ ScriptFresh

Goto(l) == pc' = l

SetGlobal ==
    /\ pc = "set_global"
    /\ settings' = Settings(ChatArgs(argv).debug, ChatArgs(argv).no_cache)
    /\ Goto("llm_cfg")
    /\ UNCHANGED <<argv, llm_cfg, agents, tasks, enabled, ingested, sub_tasks, runs>>
    /\ UNCHANGED <<handler_vars, extractor_vars, engine_vars>>

LlmCfg ==
    /\ pc = "llm_cfg"
    /\ llm_cfg' = OpenAIGPTConfig(ChatArgs(argv).model)
    /\ Goto("doc_agent")
    /\ UNCHANGED <<argv, settings, agents, tasks, enabled, ingested, sub_tasks, runs>>
    /\ UNCHANGED <<handler_vars, extractor_vars, engine_vars>>

NewAgent(at, name, class, next) ==
    /\ pc = at
    /\ agents' = agents \cup {[name |-> name, class |-> class, llm |-> llm_cfg]}
    /\ Goto(next)
    /\ UNCHANGED <<argv, settings, llm_cfg, tasks, enabled, ingested, sub_tasks, runs>>
    /\ UNCHANGED <<handler_vars, extractor_vars, engine_vars>>

NewTask(at, task, next) ==
    /\ pc = at
    /\ tasks' = tasks \cup {task}
    /\ Goto(next)
    /\ UNCHANGED <<argv, settings, llm_cfg, agents, enabled, ingested, sub_tasks, runs>>
    /\ UNCHANGED <<handler_vars, extractor_vars, engine_vars>>

EnableMessage(at, agent, tool, use, handle, next) ==
    /\ pc = at
    /\ enabled' = enabled \cup
          {[agent |-> agent, tool |-> tool, use |-> use, handle |-> handle]}
    /\ Goto(next)
    /\ UNCHANGED <<argv, settings, llm_cfg, agents, tasks, ingested, sub_tasks, runs>>
    /\ UNCHANGED <<handler_vars, extractor_vars, engine_vars>>

AddSubTask(at, parent, children, next) ==
    /\ pc = at
    /\ sub_tasks' = sub_tasks \cup {<<parent, c>> : c \in children}
    /\ Goto(next)
    /\ UNCHANGED <<argv, settings, llm_cfg, agents, tasks, enabled, ingested, runs>>
    /\ UNCHANGED <<handler_vars, extractor_vars, engine_vars>>

NewDocAgent == NewAgent("doc_agent", "doc_agent", "DocChatAgent", "ingest")

IngestDocPaths ==
    /\ pc = "ingest"
    /\ ingested' = ingested \cup {"examples/docqa/books.txt"}
    /\ Goto("doc_task")
    /\ UNCHANGED <<argv, settings, llm_cfg, agents, tasks, enabled, sub_tasks, runs>>
    /\ UNCHANGED <<handler_vars, extractor_vars, engine_vars>>

NewDocTask == NewTask("doc_task", doc_task, "extractor_agent")

NewExtractorAgent ==
    NewAgent("extractor_agent", "extractor_agent", "Extractor", "extractor_enable")

ExtractorEnableBookInfo ==
    EnableMessage("extractor_enable", "extractor_agent", "BookInfoTool",
                  TRUE, TRUE, "extractor_task")

NewExtractorTask == NewTask("extractor_task", extractor_task, "assistant_agent")

NewAssistantAgent ==
    NewAgent("assistant_agent", "assistant_agent", "Assistant", "assistant_enable_1")

AssistantEnableRecipient ==
    EnableMessage("assistant_enable_1", "assistant_agent", "RecipientTool",
                  TRUE, TRUE, "assistant_enable_2")

AssistantEnableBookInfo ==
    EnableMessage("assistant_enable_2", "assistant_agent", "BookInfoTool",
                  FALSE, TRUE, "assistant_task")

NewAssistantTask == NewTask("assistant_task", assistant_task, "add_sub_task_1")

\* a variant that hangs the DocAgent task under the Assistant task
AssistantAddSubTask_doc ==
    AddSubTask("add_sub_task_1", "Assistant", {"DocAgent"}, "add_sub_task_2")

AssistantAddSubTask ==
    AddSubTask("add_sub_task_1", "Assistant", {"Extractor"}, "add_sub_task_2")

ExtractorAddSubTask ==
    AddSubTask("add_sub_task_2", "Extractor", {"DocAgent"}, "run")

\* assistant_task.run(): the call blocks until the task tree is done
RunAssistantTask ==
    /\ pc = "run"
    /\ runs' = Append(runs, "Assistant")
    /\ Goto("running")
    /\ turn' = "assistant_llm"
    /\ UNCHANGED <<argv, settings, llm_cfg, agents, tasks, enabled, ingested, sub_tasks>>
    /\ UNCHANGED <<received, addressed, extractor_status, doc_turns>>
    /\ UNCHANGED <<handler_vars, extractor_vars>>

NextChat ==
    \/ SetGlobal
    \/ LlmCfg
    \/ NewDocAgent
    \/ IngestDocPaths
    \/ NewDocTask
    \/ NewExtractorAgent
    \/ ExtractorEnableBookInfo
    \/ NewExtractorTask
    \/ NewAssistantAgent
    \/ AssistantEnableRecipient
    \/ AssistantEnableBookInfo
    \/ NewAssistantTask
    \/ AssistantAddSubTask
    \/ ExtractorAddSubTask
    \/ RunAssistantTask

SpecChat == InitChat /\ [][NextChat]_vars

\* ------------------------- SpecRun: chat() and the task tree it starts
\* The Task loop is langroid's: a task's responders take turns; a result that
\* starts with DONE ends the task; PASS hands the tool message to the parent
\* task; SEND_TO addresses the text to the named responder of the parent.
InitRun ==
    /\ msg = NoMessage
    /\ HandlersIdle
    /\ ExtractorFresh
    /\ EngineIdle
    /\ pc = "set_global"
    /\ argv = [model |-> Omitted, debug |-> Omitted, no_cache |-> Omitted]
    /\ ScriptFresh

TaskNamed(n) == CHOOSE t \in tasks : t.name = n

CanUse(agent, tool) ==
    \E e \in enabled : e.agent = agent /\ e.tool = tool /\ e.use

CanHandle(agent, tool) ==
    \E e \in enabled : e.agent = agent /\ e.tool = tool /\ e.handle

\* the Assistant's language model addresses the Extractor, which starts the
\* Extractor sub-task
AssistantAsksExtractor ==
    /\ pc = "running" /\ turn = "assistant_llm"
    /\ extractor_status = "idle"
    /\ CanUse("assistant_agent", "RecipientTool")
    /\ <<"Assistant", "Extractor">> \in sub_tasks
    /\ extractor_status' = "running"
    /\ turn' = "extractor_llm"
    /\ UNCHANGED <<received, addressed, doc_turns>>
    /\ UNCHANGED <<handler_vars, extractor_vars, script_vars>>

\* the Extractor's language model says m, which is no valid tool message: the
\* agent's fallback handler answers with a nudge, or with nothing and m goes
\* to the DocAgent sub-task as a question
ExtractorSays(m) ==
    /\ pc = "running" /\ turn = "extractor_llm"
    /\ Len(extractor.message_history) < MaxHistory
    /\ LET r == handle_message_fallback(
                    [extractor EXCEPT
                        !.message_history = Append(@, "assistant")], m)
       IN  /\ extractor' = r.self
           /\ IF r.ret # None
              THEN turn' = "extractor_llm" /\ doc_turns' = doc_turns
              ELSE /\ <<"Extractor", "DocAgent">> \in sub_tasks
                   /\ turn' = "doc_llm"
                   /\ doc_turns' = <<>>
    /\ UNCHANGED <<received, addressed, extractor_status, fb_log>>
    /\ UNCHANGED <<handler_vars, script_vars>>

\* the DocAgent's language model responds, with nothing or with an answer;
\* the DocAgent task is done, and the Extractor has the turn again, when its
\* done_if_no_response / done_if_response names the responder
DocLLMResponds(resp) ==
    /\ pc = "running" /\ turn = "doc_llm"
    /\ Len(doc_turns) < MaxDocTurns
    /\ doc_turns' = Append(doc_turns, resp)
    /\ LET t == TaskNamed("DocAgent")
           done == \/ resp = "null" /\ "LLM" \in t.done_if_no_response
                   \/ resp = "nonnull" /\ "LLM" \in t.done_if_response
       IN  turn' = IF done THEN "extractor_llm" ELSE "doc_llm"
    /\ UNCHANGED <<received, addressed, extractor_status>>
    /\ UNCHANGED <<handler_vars, extractor_vars, script_vars>>

\* the Extractor's language model emits a valid book_info tool message
ExtractorEmitsTool(info) ==
    /\ pc = "running" /\ turn = "extractor_llm"
    /\ msg = NoMessage
    /\ Len(extractor.message_history) < MaxHistory
    /\ CanUse("extractor_agent", "BookInfoTool")
    /\ msg' = [request |-> "book_info", info |-> info]
    /\ extractor' = [extractor EXCEPT
                       !.message_history = Append(@, "assistant")]
    /\ turn' = "extractor_agent"
    /\ UNCHANGED <<outs, handle_ret, fb_log>>
    /\ UNCHANGED <<received, addressed, extractor_status, doc_turns>>
    /\ UNCHANGED script_vars

\* the Extractor agent handles the tool message with BookInfoTool.handle
ExtractorHandlesTool ==
    /\ pc = "running" /\ turn = "extractor_agent"
    /\ CanHandle("extractor_agent", "BookInfoTool")
    /\ LET r == BookInfoTool_handle(msg)
           done == StartsWith(r.ret, DONE)
           pass == Contains(r.ret, PASS)
       IN  /\ handle_ret' = r.ret
           /\ extractor_status' = IF done THEN "done" ELSE "running"
           /\ received' = IF done /\ pass THEN r.self ELSE NoMessage
           /\ turn' = IF ~done THEN "extractor_llm"
                      ELSE IF pass THEN "assistant_agent"
                      ELSE "assistant_llm"
    /\ UNCHANGED <<msg, outs, addressed, doc_turns>>
    /\ UNCHANGED <<extractor_vars, script_vars>>

\* the Assistant agent handles the passed tool message with book_info; the
\* text goes to the language model when it starts with SEND_TO and LLM, and
\* to the user otherwise
AssistantHandlesTool ==
    /\ pc = "running" /\ turn = "assistant_agent"
    /\ CanHandle("assistant_agent", "BookInfoTool")
    /\ LET out == book_info(received)
           to == IF StartsWith(out, SEND_TO \o <<"L","L","M">>)
                 THEN "LLM" ELSE "User"
       IN  /\ outs' = Append(outs, out)
           /\ addressed' = to
           /\ turn' = IF to = "LLM" THEN "assistant_llm" ELSE "user"
    /\ UNCHANGED <<msg, handle_ret, received, extractor_status, doc_turns>>
    /\ UNCHANGED <<extractor_vars, script_vars>>

\* the Assistant's language model responds to what it was sent
AssistantLLMResponds ==
    /\ pc = "running" /\ turn = "assistant_llm"
    /\ extractor_status = "done"
    /\ turn' = "user"
    /\ UNCHANGED <<received, addressed, extractor_status, doc_turns>>
    /\ UNCHANGED <<handler_vars, extractor_vars, script_vars>>

\* the user asks something
UserResponds ==
    /\ pc = "running" /\ turn = "user"
    /\ turn' = "assistant_llm"
    /\ UNCHANGED <<received, addressed, extractor_status, doc_turns>>
    /\ UNCHANGED <<handler_vars, extractor_vars, script_vars>>

\* the user quits: assistant_task.run() returns and chat() ends
UserQuits ==
    /\ pc = "running" /\ turn = "user"
    /\ turn' = Nobody
    /\ pc' = "returned"
    /\ UNCHANGED <<argv, settings, llm_cfg, agents, tasks, enabled, ingested, sub_tasks, runs>>
    /\ UNCHANGED <<received, addressed, extractor_status, doc_turns>>
    /\ UNCHANGED <<handler_vars, extractor_vars>>

NextRun ==
    \/ NextChat
    \/ AssistantAsksExtractor
    \/ \E m \in FallbackMsgs : ExtractorSays(m)
    \/ \E resp \in {"null", "nonnull"} : DocLLMResponds(resp)
    \/ \E info \in InfoLists : ExtractorEmitsTool(info)
    \/ ExtractorHandlesTool
    \/ AssistantHandlesTool
    \/ AssistantLLMResponds
    \/ UserResponds
    \/ UserQuits

SpecRun == InitRun /\ [][NextRun]_vars

\* ------------------------------------------------------ properties (Spec)
Braces == {"{", "}"}
Whitespace == {" ", "\n"}
Markers == {SEND_TO[1], DONE[1], PASS[1]}

NoBraces(s) == Chars(s) \cap Braces = {}

\* a str that repr() and the brace replacement leave as it is
Verbatim(s) ==
    /\ NoBraces(s)
    /\ "\\" \notin Chars(s)
    /\ "\n" \notin Chars(s)
    /\ ~("'" \in Chars(s) /\ "\"" \in Chars(s))

Debrace(s) == replace(replace(s, "{", "["), "}", "]")

FirstIndex(p, s) ==
    CHOOSE i \in 1..(Len(s) + 1) :
        OccursAt(p, s, i) /\ \A j \in 1..(i - 1) : ~OccursAt(p, s, j)

\* what follows the first occurrence of p in s
After(p, s) == SubSeq(s, FirstIndex(p, s) + Len(p), Len(s))

RoutingPrefix == SEND_TO \o <<"L","L","M">>

C2_AsStated ==
    \A c \in 1..Len(outs) :
        /\ StartsWith(outs[c], RoutingPrefix)
        /\ Contains(outs[c], info_str(msg))
        /\ FirstIndex(info_str(msg), outs[c]) > Len(RoutingPrefix)
        /\ LET rest == After(info_str(msg), outs[c]) IN
            /\ Contains(rest, DONE)
            /\ Chars(rest) \subseteq {DONE[1], PASS[1], " "}

\* C2 amended: every text returned by Assistant.book_info starts with the
\* routing marker SEND_TO and the recipient name LLM, holds the book
\* information only after them, and has only whitespace after the book
\* information: no terminal marker follows it.
C2_Amended ==
    \A c \in 1..Len(outs) :
        /\ StartsWith(outs[c], RoutingPrefix)
        /\ Contains(outs[c], info_str(msg))
        /\ FirstIndex(info_str(msg), outs[c]) > Len(RoutingPrefix)
        /\ LET rest == After(info_str(msg), outs[c]) IN
            /\ Chars(rest) \subseteq Whitespace
            /\ Chars(rest) \cap Markers = {}

C2_Witness == Len(outs) >= 1 /\ Len(msg.info) >= 1

\* C3: BookInfoTool.handle returns, for every payload, the DONE marker, a
\* space and the PASS marker, which are exactly two markers, and leaves the
\* records of the payload as they were.
C3_HandleDonePass ==
    [][ /\ msg'.info = msg.info
        /\ handle_ret' # None =>
            /\ handle_ret' = DONE \o <<" ">> \o PASS
            /\ Cardinality({i \in 1..Len(handle_ret') :
                               handle_ret'[i] \in Markers}) = 2 ]_vars

C3_Witness == handle_ret # None /\ Len(msg.info) >= 1

C4_NudgeIffAttempt ==
    \A c \in 1..Len(fb_log) :
        IF fb_log[c].msg.attempt
        THEN fb_log[c].ret = NudgeText /\ fb_log[c].ret # None
             /\ Len(fb_log[c].ret) > 0
        ELSE fb_log[c].ret = None

C4_Witness ==
    /\ Len(fb_log) >= 2
    /\ fb_log[1].msg.attempt
    /\ ~fb_log[2].msg.attempt

\* C9: a call of handle_message_fallback leaves the Extractor agent as it
\* was, and over all calls made so far the returned value is a function of
\* the input's flag alone.
C9_FallbackStateless ==
    [][ fb_log' # fb_log =>
          /\ extractor' = extractor
          /\ \A c, d \in 1..Len(fb_log') :
                fb_log'[c].msg.attempt = fb_log'[d].msg.attempt
                    => fb_log'[c].ret = fb_log'[d].ret ]_vars

C9_Witness ==
    /\ Len(fb_log) >= 2
    /\ fb_log[1].msg.attempt /\ fb_log[2].msg.attempt
    /\ fb_log[1].msg.content # fb_log[2].msg.content
    /\ Len(extractor.message_history) >= 1

\* ------------------------------------------------ properties (SpecChat)
AgentNames == {a.name : a \in agents}
TaskNames == {t.name : t \in tasks}
AllAgents == {"doc_agent", "extractor_agent", "assistant_agent"}
AllTasks == {"DocAgent", "Extractor", "Assistant"}
Chain == {<<"Assistant", "Extractor">>, <<"Extractor", "DocAgent">>}

\* C7: once set, the global settings have cache on exactly when no_cache was
\* not given as true and debug on exactly when debug was given as true, and the
\* chat model is the model option when it was given and is not empty and the
\* default model otherwise.
C7_Options ==
    /\ settings # Unset =>
        /\ settings.cache = (argv.no_cache # <<TRUE>>)
        /\ settings.debug = (argv.debug = <<TRUE>>)
    /\ llm_cfg # Unset =>
        llm_cfg.chat_model =
            IF argv.model \in {Omitted, <<"">>} THEN GPT4_TURBO
            ELSE argv.model[1]

C7_Witness ==
    /\ settings # Unset /\ llm_cfg # Unset
    /\ argv.no_cache = <<TRUE>>
    /\ argv.debug = Omitted
    /\ argv.model = <<"ollama/mistral">>

\* what C8 and its amended form share: the tasks exist before the chain is
\* declared; when run() is called the chain is Assistant -> Extractor ->
\* DocAgent and nothing else, and the document has been ingested; run() is
\* called once, on the Assistant task.
C8_ChainAndRun ==
    /\ sub_tasks # {} => AgentNames = AllAgents /\ TaskNames = AllTasks
    /\ sub_tasks \subseteq Chain
    /\ runs # <<>> =>
        /\ sub_tasks = Chain
        /\ ingested = {"examples/docqa/books.txt"}
        /\ runs = <<"Assistant">>
    /\ pc \in {"running", "returned"} => runs = <<"Assistant">>

AfterExtractor == {"assistant_agent", "assistant_llm", "user", Nobody}

\* what C6 and its amended form share: once the tool message is emitted no
\* Extractor or DocAgent turn follows, once it is handled the Extractor task
\* is done, and what Assistant.book_info received is the emitted message, its
\* text being addressed to the language model.
C6_Delivery ==
    /\ msg # NoMessage => turn \in AfterExtractor \cup {"extractor_agent"}
    /\ handle_ret # None =>
        /\ extractor_status = "done"
        /\ turn \in AfterExtractor
        /\ received = msg
    /\ outs # <<>> =>
        /\ Len(outs) = 1
        /\ received.info = msg.info
        /\ addressed = "LLM"

C10_OneDocTurn ==
    /\ \A t \in tasks : t.name = "DocAgent" =>
          "LLM" \in t.done_if_no_response /\ "LLM" \in t.done_if_response
    /\ Len(doc_turns) <= 1
    /\ turn = "doc_llm" => doc_turns = <<>>

C10_Witness ==
    /\ turn = "extractor_llm"
    /\ doc_turns = <<"null">>

====
